---------------------------- MODULE Spec2Model ----------------------------
(***************************************************************************)
(* Model of the /chat handler of the Langflow relay (src/app.py):          *)
(* chat_with_langflow, its two-phase reply extraction and its exception    *)
(* boundary.                                                               *)
(*                                                                         *)
(* Python strings are sequences of one-character strings, so that          *)
(* str.strip(), the substring test `k in s` and iteration over a string    *)
(* are computed and not assumed.  A parsed JSON value is a tagged record:  *)
(*   [t |-> "none"], [t |-> "num", v |-> n], [t |-> "str", v |-> chars],   *)
(*   [t |-> "list", v |-> <<values>>],                                     *)
(*   [t |-> "dict", v |-> << <<key chars, value>>, ... >>]  (insertion     *)
(*   order, keys distinct).                                                *)
(***************************************************************************)
EXTENDS Naturals, Sequences, FiniteSets

(***************************************************************************)
(* Bound of the explored inputs.                                           *)
(***************************************************************************)
\* number of nodes of the free-form upstream documents
MaxNodes == 4

(***************************************************************************)
(* String literals of the source.                                          *)
(***************************************************************************)
k_outputs == <<"o", "u", "t", "p", "u", "t", "s">>
k_results == <<"r", "e", "s", "u", "l", "t", "s">>
k_message == <<"m", "e", "s", "s", "a", "g", "e">>
k_text == <<"t", "e", "x", "t">>
k_content == <<"c", "o", "n", "t", "e", "n", "t">>
k_response == <<"r", "e", "s", "p", "o", "n", "s", "e">>
k_output == <<"o", "u", "t", "p", "u", "t">>

\* "I received your message but couldn't generate a proper response."
FALLBACK_MESSAGE ==
  <<"I", " ", "r", "e", "c", "e", "i", "v", "e", "d", " ", "y", "o", "u",
    "r", " ", "m", "e", "s", "s", "a", "g", "e", " ", "b", "u", "t", " ",
    "c", "o", "u", "l", "d", "n", "'", "t", " ", "g", "e", "n", "e", "r",
    "a", "t", "e", " ", "a", " ", "p", "r", "o", "p", "e", "r", " ", "r",
    "e", "s", "p", "o", "n", "s", "e", ".">>

\* the keys of the fallback search, line 148
TEXT_KEYS == {k_text, k_content, k_response, k_output}

\* ChatRequest.session_id default, line 24
DEFAULT_SESSION == <<"d", "e", "f", "a", "u", "l", "t">>

(***************************************************************************)
(* Python values.                                                          *)
(***************************************************************************)
None == [t |-> "none"]
Num(n) == [t |-> "num", v |-> n]
Str(s) == [t |-> "str", v |-> s]
List(xs) == [t |-> "list", v |-> xs]
Dict(ps) == [t |-> "dict", v |-> ps]

\* characters str.strip() removes
WHITESPACE == {" ", "\n", "\t", "\r"}

\* str.strip() is the empty string
StripIsEmpty(s) == \A i \in 1..Len(s) : s[i] \in WHITESPACE

\* `sub in s` for two strings
IsSubstring(sub, s) ==
  \E i \in 0..Len(s) :
    /\ i + Len(sub) <= Len(s)
    /\ \A j \in 1..Len(sub) : s[i + j] = sub[j]

\* bool(v)
Truthy(v) ==
  CASE v.t = "none" -> FALSE
    [] v.t = "num" -> v.v # 0
    [] OTHER -> Len(v.v) > 0

\* `k in v` raises TypeError (argument of type ... is not iterable)
InRaises(v) == v.t \notin {"dict", "list", "str"}

\* `k in v` for a string k, where it does not raise
InHolds(k, v) ==
  CASE v.t = "dict" -> \E i \in 1..Len(v.v) : v.v[i][1] = k
    [] v.t = "list" -> \E i \in 1..Len(v.v) : v.v[i].t = "str" /\ v.v[i].v = k
    [] v.t = "str" -> IsSubstring(k, v.v)
    [] OTHER -> FALSE

\* v[k] for a string k raises TypeError unless v is a dict
GetItemRaises(v) == v.t # "dict"

\* v[k] for a dict v that has the key k
GetItem(v, k) == v.v[CHOOSE i \in 1..Len(v.v) : v.v[i][1] = k][2]

\* `for x in v` raises TypeError
IterRaises(v) == v.t \notin {"dict", "list", "str"}

\* the elements `for x in v` visits: list items, dict keys, characters
Iter(v) ==
  CASE v.t = "list" -> v.v
    [] v.t = "dict" -> [i \in 1..Len(v.v) |-> Str(v.v[i][1])]
    [] v.t = "str" -> [i \in 1..Len(v.v) |-> Str(<<v.v[i]>>)]
    [] OTHER -> <<>>

(***************************************************************************)
(* Phase 1: the structured walk, lines 121-141.                            *)
(***************************************************************************)
Step(ctl, val) == [ctl |-> ctl, val |-> val]

\* lines 125-141: the body of the inner loop for one output_item.
\* ctl is "next" (fall through), "break" (val was assigned to bot_response)
\* or "raise".
output_item_body(output_item) ==
  IF InRaises(output_item) THEN Step("raise", None)
  ELSE IF ~InHolds(k_results, output_item) THEN Step("next", None)
  ELSE IF GetItemRaises(output_item) THEN Step("raise", None)
  ELSE LET results == GetItem(output_item, k_results) IN
    IF results.t = "dict" THEN
      IF InHolds(k_message, results) THEN
        LET message_obj == GetItem(results, k_message) IN
          IF message_obj.t = "dict" /\ InHolds(k_text, message_obj)
            THEN Step("break", GetItem(message_obj, k_text))
          ELSE IF message_obj.t = "str" THEN Step("break", message_obj)
          ELSE Step("next", None)
      ELSE IF InHolds(k_text, results)
        THEN Step("break", GetItem(results, k_text))
      ELSE Step("next", None)
    ELSE IF results.t = "str" THEN Step("break", results)
    ELSE Step("next", None)

\* line 124: for output_item in output["outputs"], from item i on
RECURSIVE inner_loop(_, _)
inner_loop(items, i) ==
  IF i > Len(items) THEN Step("next", None)
  ELSE LET s == output_item_body(items[i]) IN
    IF s.ctl = "next" THEN inner_loop(items, i + 1) ELSE s

\* lines 123-141: the body of the outer loop for one output
output_body(output) ==
  IF InRaises(output) THEN Step("raise", None)
  ELSE IF ~InHolds(k_outputs, output) THEN Step("next", None)
  ELSE IF GetItemRaises(output) THEN Step("raise", None)
  ELSE LET inner == GetItem(output, k_outputs) IN
    IF ~Truthy(inner) THEN Step("next", None)
    ELSE IF IterRaises(inner) THEN Step("raise", None)
    ELSE inner_loop(Iter(inner), 1)

\* the state of the walk: the current bot_response, whether an exception
\* left the walk, and the values assigned to bot_response so far, in order
Walk(bot, exc, yields) == [bot_response |-> bot, exc |-> exc, yields |-> yields]

\* line 122: for output in response_data["outputs"], from entry i on.
\* The `break`s of lines 132-141 leave the inner loop only.
RECURSIVE outer_loop(_, _, _)
outer_loop(outs, i, w) ==
  IF i > Len(outs) THEN w
  ELSE LET s == output_body(outs[i]) IN
    IF s.ctl = "raise" THEN Walk(w.bot_response, TRUE, w.yields)
    ELSE IF s.ctl = "break"
      THEN outer_loop(outs, i + 1, Walk(s.val, FALSE, Append(w.yields, s.val)))
    ELSE outer_loop(outs, i + 1, w)

\* lines 118-141
Phase1(response_data) ==
  LET w0 == Walk(Str(FALLBACK_MESSAGE), FALSE, <<>>) IN
    IF InRaises(response_data) THEN Walk(w0.bot_response, TRUE, <<>>)
    ELSE IF ~InHolds(k_outputs, response_data) THEN w0
    ELSE IF GetItemRaises(response_data) THEN Walk(w0.bot_response, TRUE, <<>>)
    ELSE LET outs == GetItem(response_data, k_outputs) IN
      IF IterRaises(outs) THEN Walk(w0.bot_response, TRUE, <<>>)
      ELSE outer_loop(Iter(outs), 1, w0)

(***************************************************************************)
(* Phase 2: the recursive fallback search, lines 145-158.                  *)
(***************************************************************************)
\* the key check without the `value.strip()` test
KeyCheckNoStrip(key, value) == key \in TEXT_KEYS /\ value.t = "str"

\* line 148: the key check on one mapping entry
KeyCheck(key, value) ==
  key \in TEXT_KEYS /\ value.t = "str" /\ ~StripIsEmpty(value.v)

RECURSIVE extract_text_recursively(_), ScanDict(_, _), ScanList(_, _)
\* lines 147-152, from entry i on
ScanDict(ps, i) ==
  IF i > Len(ps) THEN None
  ELSE IF KeyCheck(ps[i][1], ps[i][2]) THEN ps[i][2]
  ELSE LET result == extract_text_recursively(ps[i][2]) IN
    IF Truthy(result) THEN result ELSE ScanDict(ps, i + 1)

\* lines 154-157, from item i on
ScanList(xs, i) ==
  IF i > Len(xs) THEN None
  ELSE LET result == extract_text_recursively(xs[i]) IN
    IF Truthy(result) THEN result ELSE ScanList(xs, i + 1)

\* lines 145-158
extract_text_recursively(obj) ==
  CASE obj.t = "dict" -> ScanDict(obj.v, 1)
    [] obj.t = "list" -> ScanList(obj.v, 1)
    [] OTHER -> None

(***************************************************************************)
(* The exception boundary and the response model.                          *)
(***************************************************************************)
NoException == [type |-> "none", status_code |-> 0, detail |-> "", text |-> <<>>]
HTTPException(status_code, detail, text) ==
  [type |-> "HTTPException", status_code |-> status_code, detail |-> detail,
   text |-> text]
\* httpx.RequestError raised by client.post
RequestError == [type |-> "RequestError", status_code |-> 0, detail |-> "", text |-> <<>>]
\* TypeError raised inside the walk
TypeError == [type |-> "TypeError", status_code |-> 0, detail |-> "", text |-> <<>>]
\* pydantic's ValidationError raised by ChatResponse(...)
ValidationError ==
  [type |-> "ValidationError", status_code |-> 0, detail |-> "", text |-> <<>>]

\* what the client receives: a ChatResponse (status 200) or an error
Reply(response, session_id) ==
  [status_code |-> 200, detail |-> "", text |-> <<>>, response |-> response,
   session_id |-> session_id]
Error(status_code, detail, text) ==
  [status_code |-> status_code, detail |-> detail, text |-> text,
   response |-> <<>>, session_id |-> <<>>]

\* lines 172-177: the two except clauses.  HTTPException is a subclass of
\* Exception and is not a RequestError, so the second clause takes it.
\* The text of str(e) that follows the prefix is not modelled.
Except(e) ==
  IF e.type = "RequestError"
    THEN Error(503, "Could not connect to Langflow: ", <<>>)
    ELSE Error(500, "Internal server error: ", <<>>)

\* str(n) for the numbers of the model
DIGITS == <<"0", "1", "2", "3", "4", "5", "6", "7", "8", "9">>
NumStr(n) == <<DIGITS[n + 1]>>

\* lines 28-30: a `str` field accepts a str; a number is converted by
\* pydantic 1 and rejected by pydantic 2 (`coerce` says which is installed);
\* anything else is rejected.
StrFieldRejects(v, coerce) == ~(v.t = "str" \/ (v.t = "num" /\ coerce))
StrField(v) == IF v.t = "num" THEN NumStr(v.v) ELSE v.v

\* line 164: ChatResponse(response=bot_response, session_id=request.session_id)
ChatResponse(bot, session_id, coerce) ==
  IF StrFieldRejects(bot, coerce) \/ StrFieldRejects(session_id, coerce)
    THEN Except(ValidationError)
    ELSE Reply(StrField(bot), StrField(session_id))

(***************************************************************************)
(* The upstream documents explored.                                        *)
(***************************************************************************)
s_hi == <<"h", "i">>
s_yo == <<"y", "o">>
s_blank == <<" ", "\n">>
k_foo == <<"f", "o", "o">>

\* scalar leaves of the free-form documents
Leaves == {None, Str(s_hi), Str(s_yo), Str(s_blank)}
\* mapping keys of the free-form documents
DocKeys == {k_text, k_foo}

\* sequences of n distinct keys
KeySeqs(n) ==
  {ks \in [1..n -> DocKeys] : \A i, j \in 1..n : i # j => ks[i] # ks[j]}

\* Trees(n): the JSON values of exactly n nodes;
\* Forests(n): the sequences of JSON values of n nodes in total
RECURSIVE Trees(_), Forests(_)
Forests(n) ==
  IF n = 0 THEN {<<>>}
  ELSE UNION {{<<x>> \o f : x \in Trees(m), f \in Forests(n - m)} : m \in 1..n}
Trees(n) ==
  IF n = 1 THEN Leaves \cup {List(<<>>), Dict(<<>>)}
  ELSE {List(f) : f \in Forests(n - 1)}
       \cup UNION {{Dict([i \in 1..Len(f) |-> <<ks[i], f[i]>>]) :
                      ks \in KeySeqs(Len(f))} : f \in Forests(n - 1)}

FreeDocs == UNION {Trees(n) : n \in 1..MaxNodes}

\* one-entry and two-entry mappings
D1(k, x) == Dict(<< <<k, x>> >>)
D2(k, x, l, y) == Dict(<< <<k, x>>, <<l, y>> >>)

\* elements of an inner "outputs" list that the walk can take a reply from
YieldingItems ==
  { D1(k_results, D1(k_message, D1(k_text, Str(s_yo)))),
    D1(k_results, D1(k_message, Str(s_hi))),
    D1(k_results, D1(k_text, Str(s_blank))),
    D1(k_results, Str(s_hi)),
    D1(k_results, Str(FALLBACK_MESSAGE)),
    D1(k_results, D1(k_text, None)),
    D1(k_results, D1(k_message, D1(k_text, Num(5)))),
    D1(k_results, D2(k_message, Str(s_hi), k_text, Str(s_yo))) }
\* elements it passes over, and elements that are not mappings
OtherItems ==
  { D1(k_results, D2(k_message, None, k_text, Str(s_yo))),
    D1(k_results, List(<<Str(s_hi)>>)),
    D1(k_foo, Str(s_hi)),
    Str(s_hi), Str(k_results), List(<<Str(k_results)>>), None }
\* the items that also appear in two-element inner lists
CoreItems ==
  { D1(k_results, D1(k_message, D1(k_text, Str(s_yo)))),
    D1(k_results, Str(s_hi)),
    D1(k_results, List(<<Str(s_hi)>>)),
    None }
CoreInnerLists ==
  {<<>>} \cup {<<a>> : a \in CoreItems}
         \cup {<<a, b>> : a \in CoreItems, b \in CoreItems}
InnerLists ==
  CoreInnerLists \cup {<<a>> : a \in YieldingItems \cup OtherItems}
\* elements of the outer "outputs" list; the core ones also appear in
\* outer lists of several entries
CoreOuterItems ==
  {D1(k_outputs, List(xs)) : xs \in CoreInnerLists}
  \cup {D1(k_outputs, Str(s_hi)), None}
OuterItems ==
  CoreOuterItems
  \cup {D1(k_outputs, List(xs)) : xs \in InnerLists}
  \cup { D1(k_outputs, None), D1(k_outputs, Num(0)), D1(k_outputs, Num(5)),
         D1(k_outputs, D1(k_results, Str(s_hi))),
         D1(k_foo, None), Num(0), Str(s_hi), Str(k_outputs),
         List(<<Str(k_outputs)>>) }
OuterLists ==
  {<<>>} \cup {<<x>> : x \in OuterItems}
         \cup {<<x, y>> : x \in CoreOuterItems, y \in CoreOuterItems}

\* documents with the nested outputs shape, alone or followed by a key the
\* fallback search accepts
KeyDocs ==
  {D2(kl[1], x, kl[2], y) :
     kl \in {p \in TEXT_KEYS \X TEXT_KEYS : p[1] # p[2]}, x \in Leaves, y \in Leaves}
  \cup {D1(k_foo, List(<<x, D1(k, y)>>)) : k \in TEXT_KEYS, x \in Leaves,
                                          y \in Leaves}

NestedDocs ==
  {D1(k_outputs, List(outs)) : outs \in OuterLists}
  \cup {D2(k_outputs, List(outs), k_content, Str(s_hi)) : outs \in OuterLists}
  \cup { D1(k_outputs, None), D1(k_outputs, Num(5)), D1(k_outputs, Str(s_hi)),
         D1(k_outputs, D1(k_foo, None)), D1(k_outputs, D1(k_outputs, None)),
         Str(k_outputs), List(<<Str(k_outputs)>>), Num(5),
         D1(k_foo, D1(<<"b", "a", "r">>,
                      List(<<Str(k_response), D1(k_output, Str(s_yo))>>))) }

Docs == FreeDocs \cup KeyDocs \cup NestedDocs

(***************************************************************************)
(* The /chat handler as a state machine.                                   *)
(***************************************************************************)
VARIABLES
  FLOW_ID,        \* the process-wide flow identifier, line 20
  pc,             \* "idle", "posting" (awaiting client.post), "done"
  request,        \* the ChatRequest: flow_id and session_id
  response,       \* the upstream response: status_code and body
  walk,           \* the outcome of the structured walk, lines 118-141
  phase2_ran,     \* extract_text_recursively was called, line 160
  extracted_text, \* its result, line 160
  raised,         \* the exception that reached the except clauses
  outcome         \* what the client receives

vars == <<FLOW_ID, pc, request, response, walk, phase2_ran, extracted_text,
          raised, outcome>>

s_f0 == <<"f", "0">>
s_f1 == <<"f", "1">>
s_no == <<"n", "o">>

\* response bodies: a text that is not a JSON document, or a JSON document
\* (whose text is never blank)
Raw(text) == [kind |-> "raw", text |-> text, data |-> None]
Json(data) == [kind |-> "json", text |-> <<>>, data |-> data]
Response(status_code, body) == [status_code |-> status_code, body |-> body]

NoRequest == [flow_id |-> None, session_id |-> None]
NoResponse == Response(0, Raw(<<>>))
NoWalk == Walk(None, FALSE, <<>>)
NoOutcome == Error(0, "", <<>>)

Responses ==
  {Response(200, Json(d)) : d \in Docs}
  \cup {Response(200, Raw(x)) : x \in {<<>>, s_blank, s_no}}
  \cup {Response(c, Raw(x)) : c \in {404, 500}, x \in {<<>>, s_no}}

Init ==
  /\ FLOW_ID \in {Str(<<>>), Str(s_f0)}
  /\ pc = "idle"
  /\ request = NoRequest
  /\ response = NoResponse
  /\ walk = NoWalk
  /\ phase2_ran = FALSE
  /\ extracted_text = None
  /\ raised = NoException
  /\ outcome = NoOutcome

\* line 73: request.flow_id or FLOW_ID
ResolveFlow(req, env) == IF Truthy(req.flow_id) THEN req.flow_id ELSE env

\* lines 54-94: a request arrives; the handler runs up to `await client.post`,
\* or raises the 400 of line 76 into the except clauses
ChatRequest ==
  /\ pc = "idle"
  /\ \E f \in {None, Str(<<>>), Str(s_f1)}, sid \in {Str(DEFAULT_SESSION), None} :
       /\ request' = [flow_id |-> f, session_id |-> sid]
       /\ IF ~Truthy(ResolveFlow(request', FLOW_ID))
            THEN /\ raised' = HTTPException(400, "No flow_id provided", <<>>)
                 /\ outcome' = Except(raised')
                 /\ pc' = "done"
            ELSE /\ pc' = "posting"
                 /\ UNCHANGED <<raised, outcome>>
  /\ UNCHANGED <<FLOW_ID, response, walk, phase2_ran, extracted_text>>

\* lines 90 and 172-174: client.post raises httpx.RequestError
PostFails ==
  /\ pc = "posting"
  /\ raised' = RequestError
  /\ outcome' = Except(raised')
  /\ pc' = "done"
  /\ UNCHANGED <<FLOW_ID, request, response, walk, phase2_ran, extracted_text>>

\* lines 143-162: the fallback, entered when bot_response still equals the
\* fallback message
Phase2Runs(w) == ~w.exc /\ w.bot_response = Str(FALLBACK_MESSAGE)
Phase2(w, data) ==
  IF Phase2Runs(w) /\ Truthy(extract_text_recursively(data))
    THEN extract_text_recursively(data)
    ELSE w.bot_response

\* lines 96-177: client.post returns r and the handler runs to its end
PostReturns ==
  /\ pc = "posting"
  /\ \E r \in Responses, coerce \in BOOLEAN :
       /\ response' = r
       /\ IF r.status_code # 200
            THEN /\ raised' = HTTPException(r.status_code, "Langflow API error: ",
                                            r.body.text)
                 /\ outcome' = Except(raised')
                 /\ UNCHANGED <<walk, phase2_ran, extracted_text>>
          ELSE IF r.body.kind = "raw" /\ StripIsEmpty(r.body.text)
            THEN /\ raised' = HTTPException(502, "Empty response from Langflow", <<>>)
                 /\ outcome' = Except(raised')
                 /\ UNCHANGED <<walk, phase2_ran, extracted_text>>
          ELSE IF r.body.kind = "raw"
            THEN /\ raised' = HTTPException(502, "Invalid JSON response from Langflow: ",
                                            <<>>)
                 /\ outcome' = Except(raised')
                 /\ UNCHANGED <<walk, phase2_ran, extracted_text>>
          ELSE /\ walk' = Phase1(r.body.data)
               /\ phase2_ran' = Phase2Runs(walk')
               /\ extracted_text' =
                    IF phase2_ran' THEN extract_text_recursively(r.body.data) ELSE None
               /\ outcome' =
                    IF walk'.exc THEN Except(TypeError)
                    ELSE ChatResponse(Phase2(walk', r.body.data), request.session_id,
                                      coerce)
               /\ raised' =
                    IF walk'.exc THEN TypeError
                    ELSE IF outcome'.status_code # 200 THEN ValidationError
                    ELSE NoException
  /\ pc' = "done"
  /\ UNCHANGED <<FLOW_ID, request>>

Next == ChatRequest \/ PostFails \/ PostReturns

Spec == Init /\ [][Next]_vars

(***************************************************************************)
(* Properties.                                                             *)
(***************************************************************************)
\* the handler has finished a request whose upstream answer was status 200
\* with a JSON document
Parsed ==
  pc = "done" /\ response.status_code = 200 /\ response.body.kind = "json"

\* the request carries a string session identifier
StringSession == request.session_id.t = "str"

\* the child of a list or mapping node
Child(v, i) == IF v.t = "dict" THEN v.v[i][2] ELSE v.v[i]

\* the index paths of all nodes of a document
RECURSIVE PathsOf(_)
PathsOf(v) ==
  {<<>>} \cup
    IF v.t \in {"dict", "list"}
      THEN UNION {{<<i>> \o q : q \in PathsOf(Child(v, i))} : i \in 1..Len(v.v)}
      ELSE {}

RECURSIVE NodeAt(_, _)
NodeAt(v, q) == IF q = <<>> THEN v ELSE NodeAt(Child(v, Head(q)), Tail(q))

\* the node at path q is a string that is not blank, stored in a mapping
\* under one of the keys text, content, response, output
IsCandidate(v, q) ==
  /\ q # <<>>
  /\ LET parent == NodeAt(v, SubSeq(q, 1, Len(q) - 1))
         node == NodeAt(v, q)
     IN /\ parent.t = "dict"
        /\ parent.v[q[Len(q)]][1] \in {k_text, k_content, k_response, k_output}
        /\ node.t = "str"
        /\ \E i \in 1..Len(node.v) : node.v[i] \notin {" ", "\n", "\t", "\r"}

CandidatePaths(v) == {q \in PathsOf(v) : IsCandidate(v, q)}

\* depth-first order of two distinct paths: a node before its descendants,
\* otherwise by the first index in which they differ
Before(q, r) ==
  \/ Len(q) < Len(r) /\ SubSeq(r, 1, Len(q)) = q
  \/ \E k \in 1..Len(q) :
       /\ k <= Len(r)
       /\ SubSeq(q, 1, k - 1) = SubSeq(r, 1, k - 1)
       /\ q[k] < r[k]

\* the first candidate in depth-first order, None if there is none
FirstCandidate(v) ==
  IF CandidatePaths(v) = {} THEN None
  ELSE NodeAt(v, CHOOSE q \in CandidatePaths(v) :
                   \A r \in CandidatePaths(v) \ {q} : Before(q, r))

\* the document contains a string somewhere (as a value; keys do not count)
RECURSIVE HasString(_)
HasString(v) ==
  \/ v.t = "str"
  \/ v.t \in {"dict", "list"} /\ \E i \in 1..Len(v.v) : HasString(Child(v, i))

\* v is a mapping with key k whose value has type ty
HasTyped(v, k, ty) == v.t = "dict" /\ InHolds(k, v) /\ GetItem(v, k).t = ty

\* outputs[0].outputs[0].results.message.text is the string x
FirstMessageText(d, x) ==
  /\ HasTyped(d, k_outputs, "list")
  /\ Len(GetItem(d, k_outputs).v) > 0
  /\ LET o == GetItem(d, k_outputs).v[1] IN
       /\ HasTyped(o, k_outputs, "list")
       /\ Len(GetItem(o, k_outputs).v) > 0
       /\ LET it == GetItem(o, k_outputs).v[1] IN
            /\ HasTyped(it, k_results, "dict")
            /\ HasTyped(GetItem(it, k_results), k_message, "dict")
            /\ HasTyped(GetItem(GetItem(it, k_results), k_message), k_text, "str")
            /\ GetItem(GetItem(GetItem(it, k_results), k_message), k_text).v = x

\* C1: when two or more outer `outputs` entries each contain an extractable
\* message, Phase 1 leaves the one of the first such entry in bot_response.
C1_FirstEntryWins ==
  (Parsed /\ StringSession /\ ~walk.exc /\ Len(walk.yields) >= 2)
    => walk.bot_response = walk.yields[1]

\* C2 (for i = j = 0, where no earlier element can yield, and for walks that
\* complete): a document with outputs[0].outputs[0].results.message.text = X
\* gets the reply X, whatever else the document holds.
C2_MessageTextReturned ==
  \A x \in {s_hi, s_yo} :
    (Parsed /\ StringSession /\ ~walk.exc
       /\ FirstMessageText(response.body.data, x))
      => (outcome.status_code = 200 /\ outcome.response = x)

\* C3: when Phase 1 yields a string, whatever its content, Phase 2 is not
\* executed and the reply is exactly that string.
C3_Phase2OnlyAfterMiss ==
  (Parsed /\ StringSession /\ ~walk.exc /\ Len(walk.yields) >= 1
     /\ walk.bot_response.t = "str")
    => (~phase2_ran /\ outcome.status_code = 200
          /\ outcome.response = walk.bot_response.v)

\* C4: the extraction raises for no JSON value the upstream returns with
\* status 200.
C4_ExtractionNeverRaises ==
  (Parsed /\ StringSession) => (~walk.exc /\ raised.type # "TypeError")

\* C5: with no flow identifier in the request and none in FLOW_ID, the client
\* receives status 400 with the 'No flow_id provided' detail.
C5_NoTargetIs400 ==
  (pc = "done" /\ ~Truthy(request.flow_id) /\ ~Truthy(FLOW_ID))
    => (outcome.status_code = 400 /\ outcome.detail = "No flow_id provided")

\* C6: a non-200 upstream status S with body B reaches the client as status S
\* with B in the detail.
C6_UpstreamErrorVerbatim ==
  (pc = "done" /\ response.status_code \notin {0, 200})
    => /\ outcome.status_code = response.status_code
       /\ outcome.detail = "Langflow API error: "
       /\ outcome.text = response.body.text

\* C7: a status-200 upstream body that is blank or not JSON reaches the client
\* as status 502.
C7_BadBodyIs502 ==
  (pc = "done" /\ response.status_code = 200 /\ response.body.kind = "raw")
    => outcome.status_code = 502

\* C8: a status-200 JSON mapping in which no phase can find a reply (here: a
\* mapping that holds no string value at all) is answered with status 200,
\* the fallback message and the request's session identifier.
C8_MissIsFallbackReply ==
  (Parsed /\ StringSession /\ response.body.data.t = "dict"
     /\ ~HasString(response.body.data))
    => /\ outcome.status_code = 200
       /\ outcome.response = FALLBACK_MESSAGE
       /\ outcome.session_id = request.session_id.v

\* C9: whenever the fallback search runs (in particular when Phase 1 yielded
\* nothing), extract_text_recursively returns the first value in depth-first
\* order that is a non-blank string stored under one of the keys text,
\* content, response, output, and None when the document has no such value.
C9_FallbackFindsFirstCandidate ==
  (pc = "done" /\ phase2_ran)
    => extracted_text = FirstCandidate(response.body.data)

\* C9 witness: Phase 1 yielded nothing, the search ran over a document with
\* several candidates and returned one that lies below the top level.
C9_Witness ==
  /\ pc = "done" /\ phase2_ran /\ Len(walk.yields) = 0
  /\ extracted_text.t = "str"
  /\ outcome.status_code = 200 /\ outcome.response = extracted_text.v
  /\ Cardinality(CandidatePaths(response.body.data)) >= 2
  /\ \E q \in CandidatePaths(response.body.data) :
       Len(q) >= 2 /\ NodeAt(response.body.data, q) = extracted_text
  /\ \E q \in CandidatePaths(response.body.data) :
       NodeAt(response.body.data, q) # extracted_text

\* C10: every value Phase 1 yields is a string.
C10_Phase1YieldsStrings ==
  (Parsed /\ StringSession)
    => \A k \in 1..Len(walk.yields) : walk.yields[k].t = "str"

=============================================================================
